---- MODULE Spec2Model ----
(***************************************************************************)
(* Model of the orchestration engine of agents/meta_agent.py: the file     *)
(* classifier, the priority scheduler, the timeout-guarded executor, the   *)
(* per-modality pipelines, the aggregator, the meta-synthesizer and the    *)
(* proof sealer, as the state machine of one meta_process call.            *)
(***************************************************************************)
EXTENDS Naturals, Integers, Sequences, FiniteSets, TLC

VARIABLES
    file_paths,            \* meta_process argument: the submitted paths
    user_instructions,     \* meta_process argument: the free text
    missing,               \* collaborators whose import failed (None at module level)
    image_native,          \* asyncio.iscoroutinefunction(analyze_image_with_rd_and_gemini)
    cases_collection,      \* database.py: the case_id of each record of the "cases" collection
    requests,              \* app.py: the /verify and /verify_with_instructions requests
    pc,                    \* position of the coordination flow
    ordered_types,         \* meta_process local
    buckets,               \* meta_process local
    ti,                    \* index of t in "for t in ordered_types"
    bi,                    \* index of f in "for f in buckets.get(t, [])"
    pl,                    \* locals of the running _run_pipeline_for_file
    call,                  \* the collaborator call the flow is awaiting
    item,                  \* value returned by _run_pipeline_for_file
    results,               \* meta_process local: the report dict, in insertion order
    aggregate_text_parts,  \* meta_process local
    file_summaries,        \* meta_process local
    meta_output,           \* value returned by _generate_meta_intelligence
    abandoned,             \* executor jobs whose waiter timed out, still running
    invoked                \* log of collaborator invocations, in order

vars == <<file_paths, user_instructions, missing, image_native, cases_collection,
          requests, pc, ordered_types,
          buckets, ti, bi, pl, call, item, results, aggregate_text_parts,
          file_summaries, meta_output, abandoned, invoked>>

(***************************************************************************)
(* Bounds of the model.                                                    *)
(***************************************************************************)
MaxFiles == 2
MaxMissing == 1
MaxWords == 2
MaxRequests == 3

(***************************************************************************)
(* Strings: str.lower, the "in" substring test, rsplit, os.path.basename.  *)
(***************************************************************************)
Upper == "ABCDEFGHIJKLMNOPQRSTUVWXYZ"
LowerAlphabet == "abcdefghijklmnopqrstuvwxyz"

CharAt(s, i) == SubSeq(s, i, i)

LowerMap ==
    [c \in { CharAt(Upper, i) : i \in 1..Len(Upper) } |->
        CharAt(LowerAlphabet, CHOOSE i \in 1..Len(Upper) : CharAt(Upper, i) = c)]

LowerChar(c) == IF c \in DOMAIN LowerMap THEN LowerMap[c] ELSE c

RECURSIVE Lower(_)
Lower(s) == IF Len(s) = 0 THEN "" ELSE LowerChar(CharAt(s, 1)) \o Lower(SubSeq(s, 2, Len(s)))

\* Python's  w in s  for strings
Contains(s, w) ==
    \E i \in 1..(Len(s) + 1) : i + Len(w) - 1 <= Len(s) /\ SubSeq(s, i, i + Len(w) - 1) = w

\* position of the last occurrence of the one-character string c in s, 0 if none
LastIndexOf(s, c) ==
    IF \E i \in 1..Len(s) : CharAt(s, i) = c
    THEN CHOOSE i \in 1..Len(s) :
            CharAt(s, i) = c /\ \A j \in (i + 1)..Len(s) : CharAt(s, j) # c
    ELSE 0

\* Ext without the lower-casing
ExtCaseSensitive(p) ==
    IF Contains(p, ".") THEN SubSeq(p, LastIndexOf(p, ".") + 1, Len(p)) ELSE ""

\* p.rsplit(".", 1)[-1].lower() if "." in p else ""
Ext(p) ==
    IF Contains(p, ".") THEN Lower(SubSeq(p, LastIndexOf(p, ".") + 1, Len(p))) ELSE ""

Basename(p) == SubSeq(p, LastIndexOf(p, "/") + 1, Len(p))

(***************************************************************************)
(* File classifier.                                                        *)
(***************************************************************************)
ImageExts == {"png", "jpg", "jpeg", "gif"}
VideoExts == {"mp4", "mov", "avi", "mkv"}
AudioExts == {"mp3", "wav", "m4a"}
DocExts   == {"txt", "pdf", "docx"}

Classify(p) ==
    LET ext == Ext(p) IN
    IF ext \in ImageExts THEN "images"
    ELSE IF ext \in VideoExts THEN "video"
    ELSE IF ext \in AudioExts THEN "audio"
    ELSE IF ext \in DocExts THEN "documents"
    ELSE "unsupported"

BucketNames == {"images", "audio", "documents", "video", "unsupported"}

\* BucketOf with each path put at the front of its bucket
RECURSIVE BucketOfReversed(_, _, _)
BucketOfReversed(paths, b, i) ==
    IF i > Len(paths) THEN << >>
    ELSE BucketOfReversed(paths, b, i + 1) \o (IF Classify(paths[i]) = b THEN <<i>> ELSE << >>)

\* the indices of file_paths that the loop appends to a bucket, in submission order
RECURSIVE BucketOf(_, _, _)
BucketOf(paths, b, i) ==
    IF i > Len(paths) THEN << >>
    ELSE (IF Classify(paths[i]) = b THEN <<i>> ELSE << >>) \o BucketOf(paths, b, i + 1)

MakeBuckets(paths) == [b \in BucketNames |-> BucketOf(paths, b, 1)]

(***************************************************************************)
(* Priority scheduler.                                                     *)
(***************************************************************************)
AudioWords == {"transcript", "audio"}
ImageWords == {"image", "photo", "fake"}
VideoWords == {"video", "clip", "mp4"}
DocWords   == {"doc", "file", "text"}

AnyIn(words, instr) == \E w \in words : Contains(instr, w)

Fallback == <<"documents", "video", "images", "audio">>

InSeq(x, s) == \E i \in 1..Len(s) : s[i] = x

RECURSIVE AppendMissing(_, _)
AppendMissing(bs, rest) ==
    IF rest = << >> THEN bs
    ELSE AppendMissing(IF InSeq(Head(rest), bs) THEN bs ELSE Append(bs, Head(rest)),
                       Tail(rest))

\* _parse_priority_from_instructions without the lower-casing of line 54
_parse_priority_case_sensitive(instructions) ==
    LET b1 == IF AnyIn(AudioWords, instructions) THEN <<"audio">> ELSE << >>
        b2 == IF AnyIn(ImageWords, instructions) THEN Append(b1, "images") ELSE b1
        b3 == IF AnyIn(VideoWords, instructions) THEN Append(b2, "video") ELSE b2
        b4 == IF AnyIn(DocWords, instructions) THEN Append(b3, "documents") ELSE b3
    IN AppendMissing(b4, Fallback)

_parse_priority_from_instructions(instructions) ==
    LET instr == Lower(instructions)
        b1 == IF AnyIn(AudioWords, instr) THEN <<"audio">> ELSE << >>
        b2 == IF AnyIn(ImageWords, instr) THEN Append(b1, "images") ELSE b1
        b3 == IF AnyIn(VideoWords, instr) THEN Append(b2, "video") ELSE b2
        b4 == IF AnyIn(DocWords, instr) THEN Append(b3, "documents") ELSE b3
    IN AppendMissing(b4, Fallback)

(***************************************************************************)
(* Payloads.  A collaborator's return value, a _run_safe result and a      *)
(* report are values of one record shape: keys is the set of top-level     *)
(* keys when the value is a dict (isdict), str the value when it is a      *)
(* string.  authenticity_score is held in hundredths, the percentages      *)
(* (tamperingPercentage, visual_analysis.fake_ratio_percent) in tenths,    *)
(* num being the one the aggregator reads (dangerScore for text reports).  *)
(***************************************************************************)
Empty ==
    [isdict |-> TRUE, keys |-> {}, str |-> "", verdict |-> "", authenticity_score |-> 0,
     num |-> 0, error |-> "", transcript |-> "", transcript_isdict |-> TRUE,
     findings |-> "", factCheckAgent |-> "", privateAudit |-> "", ser |-> TRUE]

Str(s) == [Empty EXCEPT !.isdict = FALSE, !.str = s]

ErrorPayload(msg) == [Empty EXCEPT !.keys = {"error"}, !.error = msg]

IsError(p) == p.isdict /\ "error" \in p.keys

FailSafeImage ==
    [Empty EXCEPT !.keys = {"verdict", "authenticity_score", "tamperingPercentage",
                            "explanation", "rd_raw"},
                  !.verdict = "Likely Deepfake (Fail-Safe)",
                  !.authenticity_score = 12, !.num = 885]

FailSafeVideo ==
    [Empty EXCEPT !.keys = {"verdict", "authenticity_score", "metadata", "visual_analysis"},
                  !.verdict = "Tampering Detected (Fail-Safe)",
                  !.authenticity_score = 35, !.num = 652]

\* str(res) of a _run_safe result that is not a string
StrOf(p) ==
    IF ~p.isdict THEN p.str
    ELSE IF "error" \in p.keys THEN "{'error': '" \o p.error \o "'}"
    ELSE "{}"

(***************************************************************************)
(* What the collaborators may answer.  Each set holds a well-formed        *)
(* answer and the degraded answers the collaborator's contract allows.     *)
(***************************************************************************)
ExcMsg == "boom"

ImageAnswers ==
    { [Empty EXCEPT !.keys = {"verdict", "authenticity_score", "tamperingPercentage", "rd_raw"},
                    !.verdict = "Authentic", !.authenticity_score = 97, !.num = 30],
      ErrorPayload("RD API error") }

VideoAnswers ==
    { [Empty EXCEPT !.keys = {"verdict", "authenticity_score", "visual_analysis"},
                    !.verdict = "Authentic", !.authenticity_score = 90, !.num = 21],
      ErrorPayload("ffmpeg missing") }

AudioAnswers ==
    { [Empty EXCEPT !.keys = {"transcript"}, !.transcript = "we landed"],
      [Empty EXCEPT !.keys = {"transcript"}, !.transcript = ""],
      [Empty EXCEPT !.keys = {"transcript"}, !.transcript_isdict = FALSE],
      ErrorPayload("AssemblyAI error") }

GeminiAnswers ==
    { [Empty EXCEPT !.keys = {"misinformationAnalysis", "finalReport"},
                    !.num = 40, !.findings = "moon is cheese"],
      ErrorPayload("quota") }

RECURSIVE Repeat(_, _)
Repeat(s, n) == IF n = 0 THEN "" ELSE s \o Repeat(s, n - 1)

\* a text longer than the 500 characters of line 119
ExtractedText == Repeat("the moon is made of cheese. ", 20)

TextAnswers == { Str(""), Str(ExtractedText) }

NeysaAnswers == { Str("no PII found") }

FactCheckAnswers == { Str("Refuted [1]") }

Answers(fn) ==
    CASE fn = "analyze_image_with_rd_and_gemini" -> ImageAnswers
      [] fn = "run_video_forensics" -> VideoAnswers
      [] fn = "analyze_audio_file" -> AudioAnswers
      [] fn = "run_gemini_analysis" -> GeminiAnswers
      [] fn = "read_files_from_paths" -> TextAnswers
      [] fn = "analyze_document_privately" -> NeysaAnswers
      [] fn = "fact_check_agent" -> FactCheckAnswers

\* a document whose extracted text is longer than the 25000 characters of line 173
RECURSIVE Doubled(_, _)
Doubled(s, n) == IF n = 0 THEN s ELSE Doubled(s \o s, n - 1)

BigPath == "big.pdf"

BigText == Doubled("the moon is made of cheese. ", 10)

\* an image whose report carries a value json.dumps has no encoding for
RawPath == "raw.jpg"

RawReport ==
    [Empty EXCEPT !.keys = {"verdict", "authenticity_score", "tamperingPercentage", "rd_raw"},
                  !.verdict = "Authentic", !.authenticity_score = 97, !.num = 30,
                  !.ser = FALSE]

\* what the call c may return: the text or the report of the file it is given,
\* else any answer of its collaborator
AnswersTo(c) ==
    IF c.fn = "read_files_from_paths" /\ c.arg = BigPath THEN { Str(BigText) }
    ELSE IF c.fn = "analyze_image_with_rd_and_gemini" /\ c.arg = RawPath THEN { RawReport }
    ELSE Answers(c.fn)

(***************************************************************************)
(* Timeout-guarded executor.  An outcome is what the awaited call did:     *)
(* kind "return" with a value, "raise", or "timeout".                      *)
(***************************************************************************)
\* _run_safe with the generic error payload on every timeout
_run_safe_generic_timeout(out, name, file_type) ==
    CASE out.kind = "return" -> out.val
      [] out.kind = "timeout" -> ErrorPayload(name \o " timed out. Service unavailable.")
      [] out.kind = "raise" -> ErrorPayload(name \o " failed: " \o ExcMsg)

_run_safe(out, name, file_type) ==
    CASE out.kind = "return" -> out.val
      [] out.kind = "timeout" ->
            IF file_type = "image" THEN FailSafeImage
            ELSE IF file_type = "video" THEN FailSafeVideo
            ELSE ErrorPayload(name \o " timed out. Service unavailable.")
      [] out.kind = "raise" -> ErrorPayload(name \o " failed: " \o ExcMsg)

(***************************************************************************)
(* Per-modality pipeline: _run_pipeline_for_file as a resumable            *)
(* computation.  Each operator below yields either the returned item       *)
(* (Ret) or the next awaited collaborator call with the locals kept        *)
(* across the await (Await).                                               *)
(***************************************************************************)
Collaborators ==
    {"analyze_image_with_rd_and_gemini", "analyze_audio_file", "doc_misinfo_agent",
     "run_video_forensics", "log_verification_hash", "fact_check_agent",
     "analyze_document_privately", "GEMINI_API_KEY"}

\* Loaded without the test of the module-level name
LoadedUnchecked(c) == TRUE

Loaded(c) == c \notin missing

NoCall ==
    [fn |-> "", idx |-> 0, guarded |-> FALSE, timeout |-> 0, name |-> "",
     file_type |-> "", offloaded |-> FALSE, arg |-> ""]

NoPl ==
    [idx |-> 0, ftype |-> "", step |-> "", text |-> "", gemini_res |-> Empty,
     neysa_res |-> "", res |-> Empty]

NoItem ==
    [idx |-> 0, file |-> "", keys |-> {}, type |-> "", report |-> Empty,
     text |-> "", error |-> ""]

Guarded(fn, idx, timeout, name, file_type, offloaded, arg) ==
    [fn |-> fn, idx |-> idx, guarded |-> TRUE, timeout |-> timeout, name |-> name,
     file_type |-> file_type, offloaded |-> offloaded, arg |-> arg]

Unguarded(fn, idx, offloaded, arg) ==
    [NoCall EXCEPT !.fn = fn, !.idx = idx, !.offloaded = offloaded, !.arg = arg]

Ret(it) == [done |-> TRUE, item |-> it, pl |-> NoPl, call |-> NoCall]
Await(p, c) == [done |-> FALSE, item |-> NoItem, pl |-> p, call |-> c]

Fname(idx) == Basename(file_paths[idx])

Prefix(s, n) == SubSeq(s, 1, IF Len(s) < n THEN Len(s) ELSE n)

Whitespace == {" ", "\t", "\n"}

RECURSIVE LStrip(_)
LStrip(s) ==
    IF Len(s) > 0 /\ CharAt(s, 1) \in Whitespace THEN LStrip(SubSeq(s, 2, Len(s))) ELSE s

RECURSIVE RStrip(_)
RStrip(s) ==
    IF Len(s) > 0 /\ CharAt(s, Len(s)) \in Whitespace
    THEN RStrip(SubSeq(s, 1, Len(s) - 1)) ELSE s

Strip(s) == RStrip(LStrip(s))

MissingItem(idx, msg) ==
    [NoItem EXCEPT !.idx = idx, !.file = Fname(idx), !.keys = {"file", "error"},
                   !.error = msg]

ExceptionItem(p, msg) ==
    [NoItem EXCEPT !.idx = p.idx, !.file = Fname(p.idx), !.keys = {"file", "type", "error"},
                   !.type = p.ftype, !.error = msg]

ReportItem(p, type, report) ==
    [NoItem EXCEPT !.idx = p.idx, !.file = Fname(p.idx), !.keys = {"file", "type", "report"},
                   !.type = type, !.report = report]

\* lines 123-127
DocFinish(p, fact_check_res) ==
    LET r1 == [p.gemini_res EXCEPT !.keys = @ \cup {"factCheckAgent"},
                                   !.factCheckAgent = fact_check_res]
        r2 == IF ~Contains(Lower(p.neysa_res), "error")
              THEN [r1 EXCEPT !.keys = @ \cup {"privateAudit"}, !.privateAudit = p.neysa_res]
              ELSE r1
    IN Ret([ReportItem(p, "document", r2) EXCEPT !.keys = @ \cup {"text"}, !.text = p.text])

\* DocFactStage with the whole text as the claim when there are no findings
DocFactStageWholeText(p) ==
    IF Loaded("fact_check_agent") /\ Strip(p.text) # ""
    THEN LET claim == IF p.gemini_res.findings # "" THEN p.gemini_res.findings ELSE p.text
         IN Await([p EXCEPT !.step = "fact"],
                  Guarded("fact_check_agent", p.idx, 15, "Fact Check Agent", "doc", TRUE, claim))
    ELSE DocFinish(p, "Skipped")

\* lines 117-121
DocFactStage(p) ==
    IF Loaded("fact_check_agent") /\ Strip(p.text) # ""
    THEN LET claim == IF p.gemini_res.findings # "" THEN p.gemini_res.findings
                      ELSE Prefix(p.text, 500)
         IN Await([p EXCEPT !.step = "fact"],
                  Guarded("fact_check_agent", p.idx, 15, "Fact Check Agent", "doc", TRUE, claim))
    ELSE DocFinish(p, "Skipped")

\* lines 111-114
DocNeysaStage(p) ==
    IF Loaded("analyze_document_privately")
    THEN Await([p EXCEPT !.step = "neysa"],
               Guarded("analyze_document_privately", p.idx, 10, "Neysa Private AI", "doc",
                       TRUE, Prefix(p.text, 3000)))
    ELSE DocFactStage([p EXCEPT !.neysa_res = "Skipped"])

\* AudioAfterTranscribe with the transcript scored whether or not it is empty
AudioAfterTranscribeAlways(p, res) ==
    IF res.isdict /\ "transcript" \in res.keys
    THEN IF ~res.transcript_isdict
         THEN Ret(ExceptionItem(p, "'str' object has no attribute 'get'"))
         ELSE IF Loaded("doc_misinfo_agent")
         THEN Await([p EXCEPT !.step = "audio_gemini", !.res = res],
                    Unguarded("run_gemini_analysis", p.idx, TRUE, res.transcript))
         ELSE Ret(ReportItem(p, "audio", res))
    ELSE Ret(ReportItem(p, "audio", res))

\* lines 146-152
AudioAfterTranscribe(p, res) ==
    IF res.isdict /\ "transcript" \in res.keys
    THEN IF ~res.transcript_isdict
         THEN Ret(ExceptionItem(p, "'str' object has no attribute 'get'"))
         ELSE IF res.transcript # "" /\ Loaded("doc_misinfo_agent")
         THEN Await([p EXCEPT !.step = "audio_gemini", !.res = res],
                    Unguarded("run_gemini_analysis", p.idx, TRUE, res.transcript))
         ELSE Ret(ReportItem(p, "audio", res))
    ELSE Ret(ReportItem(p, "audio", res))

\* lines 98-161, up to the first await
BeginPipelineFor(idx, ftype) ==
    LET p == [NoPl EXCEPT !.idx = idx, !.ftype = ftype] IN
    CASE ftype = "documents" ->
            IF ~Loaded("doc_misinfo_agent") THEN Ret(MissingItem(idx, "Doc Agent missing"))
            ELSE Await([p EXCEPT !.step = "read"],
                       Unguarded("read_files_from_paths", idx, FALSE, file_paths[idx]))
      [] ftype = "images" ->
            IF ~Loaded("analyze_image_with_rd_and_gemini")
            THEN Ret(MissingItem(idx, "Image Agent missing"))
            ELSE Await([p EXCEPT !.step = "image"],
                       IF image_native
                       THEN Guarded("analyze_image_with_rd_and_gemini", idx, 300,
                                    "Image Agent", "image", FALSE, file_paths[idx])
                       ELSE Guarded("analyze_image_with_rd_and_gemini", idx, 90,
                                    "Image Agent", "image", TRUE, file_paths[idx]))
      [] ftype = "audio" ->
            IF ~Loaded("analyze_audio_file") THEN Ret(MissingItem(idx, "Audio Agent missing"))
            ELSE Await([p EXCEPT !.step = "audio"],
                       Guarded("analyze_audio_file", idx, 120, "Audio Agent", "audio", TRUE,
                               file_paths[idx]))
      [] ftype = "video" ->
            IF ~Loaded("run_video_forensics") THEN Ret(MissingItem(idx, "Video Agent missing"))
            ELSE Await([p EXCEPT !.step = "video"],
                       Guarded("run_video_forensics", idx, 180, "Video Agent", "video", TRUE,
                               file_paths[idx]))
      [] OTHER ->
            Ret([NoItem EXCEPT !.idx = idx, !.file = Fname(idx), !.keys = {"file", "type"},
                               !.type = "unsupported"])

\* lines 102-164, from the await of call c with locals p, the call having ended as out
ResumePipeline(p, c, out) ==
    IF ~c.guarded /\ out.kind = "raise" THEN Ret(ExceptionItem(p, ExcMsg))
    ELSE
    LET res == IF c.guarded THEN _run_safe(out, c.name, c.file_type) ELSE out.val IN
    CASE p.step = "read" ->
            Await([p EXCEPT !.step = "gemini", !.text = res.str],
                  Unguarded("run_gemini_analysis", p.idx, TRUE, res.str))
      [] p.step = "gemini" -> DocNeysaStage([p EXCEPT !.gemini_res = res])
      [] p.step = "neysa" -> DocFactStage([p EXCEPT !.neysa_res = StrOf(res)])
      [] p.step = "fact" -> DocFinish(p, StrOf(res))
      [] p.step = "image" -> Ret(ReportItem(p, "image", res))
      [] p.step = "video" -> Ret(ReportItem(p, "video", res))
      [] p.step = "audio" -> AudioAfterTranscribe(p, res)
      [] p.step = "audio_gemini" ->
            Ret(ReportItem(p, "audio",
                    [p.res EXCEPT !.keys = @ \cup {"misinformationAnalysis"},
                                  !.num = IF "misinformationAnalysis" \in res.keys
                                          THEN res.num ELSE 0]))

(***************************************************************************)
(* Dicts in insertion order and JSON values.  A dict is a sequence of      *)
(* [k, v] entries with distinct keys; a value is a string (t = "str"), a   *)
(* list (t = "list", l its elements) or a digest (t = "sha256", l the      *)
(* canonical form that was hashed).                                        *)
(***************************************************************************)
JStr(s) == [t |-> "str", s |-> s, l |-> << >>]
JList(l) == [t |-> "list", s |-> "", l |-> l]

Has(d, k) == \E i \in 1..Len(d) : d[i].k = k
Get(d, k) == d[CHOOSE i \in 1..Len(d) : d[i].k = k].v

\* d[k] = v
Set(d, k, v) ==
    IF Has(d, k) THEN [i \in 1..Len(d) |-> IF d[i].k = k THEN [k |-> k, v |-> v] ELSE d[i]]
    ELSE Append(d, [k |-> k, v |-> v])

\* d.update(e) for a dict e
RECURSIVE Update(_, _)
Update(d, e) == IF e = << >> THEN d ELSE Update(Set(d, Head(e).k, Head(e).v), Tail(e))

\* d without the keys ks
RECURSIVE Without(_, _)
Without(d, ks) ==
    IF d = << >> THEN << >>
    ELSE (IF Head(d).k \in ks THEN << >> ELSE <<Head(d)>>) \o Without(Tail(d), ks)

\* order of the characters that occur in keys, by code point
CharOrder == "_abcdefghijklmnopqrstuvwxyz"
CharRank(c) == CHOOSE i \in 1..Len(CharOrder) : CharAt(CharOrder, i) = c

RECURSIVE StrLess(_, _)
StrLess(a, b) ==
    IF Len(b) = 0 THEN FALSE
    ELSE IF Len(a) = 0 THEN TRUE
    ELSE IF CharAt(a, 1) = CharAt(b, 1) THEN StrLess(SubSeq(a, 2, Len(a)), SubSeq(b, 2, Len(b)))
    ELSE CharRank(CharAt(a, 1)) < CharRank(CharAt(b, 1))

RECURSIVE InsertSorted(_, _)
InsertSorted(e, d) ==
    IF d = << >> THEN <<e>>
    ELSE IF StrLess(e.k, Head(d).k) THEN <<e>> \o d
    ELSE <<Head(d)>> \o InsertSorted(e, Tail(d))

\* the entries in the order json.dumps(..., sort_keys=True) writes them
RECURSIVE SortKeys(_)
SortKeys(d) == IF d = << >> THEN << >> ELSE InsertSorted(Head(d), SortKeys(Tail(d)))

\* json.dumps raises TypeError on a value it cannot encode
Serializable(d) ==
    \A i \in 1..Len(d) :
        d[i].v.t = "list" => \A j \in 1..Len(d[i].v.l) : d[i].v.l[j].report.ser

\* _make_hash, lines 46-51; the digest stands for the canonical text it was computed from
_make_hash(obj) ==
    IF Serializable(obj) THEN [t |-> "sha256", s |-> "", l |-> SortKeys(obj)]
    ELSE JStr("hash_error")

(***************************************************************************)
(* Aggregator, lines 219-250.                                              *)
(***************************************************************************)
\* a percentage held in tenths, as an f-string writes it
Pct(n) ==
    IF n % 10 = 0 THEN ToString(n \div 10)
    ELSE ToString(n \div 10) \o "." \o ToString(n % 10)

\* item.get("report", {})
ReportOf(it) == IF "report" \in it.keys THEN it.report ELSE Empty

VerdictOf(report) == IF "verdict" \in report.keys THEN report.verdict ELSE "Unknown"

\* get_safe(..., "misinformationAnalysis", "dangerScore") or 0
DangerOf(report) == IF "misinformationAnalysis" \in report.keys THEN report.num ELSE 0

\* the evidence fragments the item adds
PartsFor(t, it) ==
    LET fname == it.file
        report == ReportOf(it)
    IN
    CASE t = "documents" /\ "text" \in it.keys ->
            << [idx |-> it.idx, s |-> "--- DOCUMENT: " \o fname \o " ---\n" \o it.text \o "\n"] >>
      [] t = "audio" /\ "error" \notin report.keys ->
            << [idx |-> it.idx,
                s |-> "--- AUDIO: " \o fname \o " ---\n" \o report.transcript \o "\n"] >>
      [] t = "video" /\ "error" \notin report.keys ->
            << [idx |-> it.idx,
                s |-> "--- VIDEO: " \o fname \o " ---\nVerdict: " \o VerdictOf(report)
                      \o "\nFake: "
                      \o (IF "visual_analysis" \in report.keys THEN Pct(report.num) ELSE "0")
                      \o "%\n"] >>
      [] t = "images" /\ "error" \notin report.keys ->
            << [idx |-> it.idx,
                s |-> "--- IMAGE: " \o fname \o " ---\nVerdict: " \o VerdictOf(report)
                      \o "\nScore: "
                      \o (IF "tamperingPercentage" \in report.keys THEN Pct(report.num) ELSE "0")
                      \o "%\n"] >>
      [] OTHER -> << >>

\* the summary lines the item adds
SummariesFor(t, it) ==
    LET fname == it.file
        report == ReportOf(it)
    IN
    CASE t = "documents" /\ "text" \in it.keys ->
            << [idx |-> it.idx,
                s |-> fname \o ": Danger " \o ToString(DangerOf(report)) \o "/100"] >>
      [] t = "audio" ->
            IF "error" \in report.keys
            THEN << [idx |-> it.idx, s |-> fname \o ": Audio Analysis Failed"] >>
            ELSE << [idx |-> it.idx,
                     s |-> fname \o ": Audio Danger " \o ToString(DangerOf(report)) \o "/100"] >>
      [] t = "video" ->
            IF "error" \in report.keys
            THEN << [idx |-> it.idx, s |-> fname \o ": Video Analysis Error"] >>
            ELSE << [idx |-> it.idx,
                     s |-> fname \o ": Video Verdict '" \o VerdictOf(report) \o "' ("
                           \o (IF "visual_analysis" \in report.keys THEN Pct(report.num) ELSE "0")
                           \o "%)"] >>
      [] t = "images" ->
            IF "error" \in report.keys
            THEN << [idx |-> it.idx, s |-> fname \o ": Image Analysis Failed"] >>
            ELSE << [idx |-> it.idx,
                     s |-> fname \o ": Image Verdict '" \o VerdictOf(report) \o "' ("
                           \o (IF "tamperingPercentage" \in report.keys
                               THEN Pct(report.num) ELSE "0")
                           \o "%)"] >>
      [] OTHER -> << >>

(***************************************************************************)
(* Meta-synthesizer, lines 166-188.                                        *)
(***************************************************************************)
Obj(pairs) == [kind |-> "object", pairs |-> pairs]
NotObj(kind) == [kind |-> kind, pairs |-> << >>]

KeyMissing ==
    Obj(<< [k |-> "final_summary", v |-> JStr("AI key missing.")],
           [k |-> "entities", v |-> JList(<< >>)],
           [k |-> "relations", v |-> JList(<< >>)] >>)

Degraded ==
    Obj(<< [k |-> "final_summary", v |-> JStr("Meta Analysis timed out.")],
           [k |-> "entities", v |-> JList(<< >>)],
           [k |-> "relations", v |-> JList(<< >>)] >>)

\* texts the model's response may carry
SynthTexts ==
    { "{\"final_summary\":\"Two files disagree\",\"entities\":[],\"relations\":[]}",
      "{\"relations\":[],\"entities\":[],\"final_summary\":\"Two files disagree\"}",
      "[1]",
      "I cannot comply",
      "{\"final_summary\":\"ok\",\"results\":[],\"session_id\":\"X\"}",
      "{\"proof_hash\":\"p\",\"blockchain_tx\":\"t\"}" }

\* json.loads on those texts
JsonLoads(text) ==
    CASE text = "{\"final_summary\":\"Two files disagree\",\"entities\":[],\"relations\":[]}" ->
            Obj(<< [k |-> "final_summary", v |-> JStr("Two files disagree")],
                   [k |-> "entities", v |-> JList(<< >>)],
                   [k |-> "relations", v |-> JList(<< >>)] >>)
      [] text = "{\"relations\":[],\"entities\":[],\"final_summary\":\"Two files disagree\"}" ->
            Obj(<< [k |-> "relations", v |-> JList(<< >>)],
                   [k |-> "entities", v |-> JList(<< >>)],
                   [k |-> "final_summary", v |-> JStr("Two files disagree")] >>)
      [] text = "[1]" -> NotObj("array")
      [] text = "{\"final_summary\":\"ok\",\"results\":[],\"session_id\":\"X\"}" ->
            Obj(<< [k |-> "final_summary", v |-> JStr("ok")],
                   [k |-> "results", v |-> JList(<< >>)],
                   [k |-> "session_id", v |-> JStr("X")] >>)
      [] text = "{\"proof_hash\":\"p\",\"blockchain_tx\":\"t\"}" ->
            Obj(<< [k |-> "proof_hash", v |-> JStr("p")],
                   [k |-> "blockchain_tx", v |-> JStr("t")] >>)
      [] OTHER -> NotObj("JSONDecodeError")

\* lines 183-188: what _generate_meta_intelligence returns for an outcome of the call
MetaOf(out) ==
    IF out.kind = "return" /\ JsonLoads(out.val).kind # "JSONDecodeError"
    THEN JsonLoads(out.val)
    ELSE Degraded

(***************************************************************************)
(* The inputs of a meta_process call.                                      *)
(***************************************************************************)
SessionPaths == {"up/A.PNG", "b.mp4", "c.mp3", "d.txt", "e.tar.gz"}

ExampleInstructions == "Check the audio transcript for lies and also check photos for fakes"

SessionInstructions == { "", ExampleInstructions }

\* instructions put together from words, for the scheduler alone
Words ==
    { "", "Audio", "TRANSCRIPT", "photos", "fakes", "Image ", "clip", "MP4", "Video",
      "docs", "profile", "context", "lies ", "pho", "to" }

RECURSIVE Phrases(_)
Phrases(n) == IF n = 0 THEN {""} ELSE { a \o w : a \in Phrases(n - 1), w \in Words }

SchedInstructions == Phrases(MaxWords) \cup { ExampleInstructions }

\* the collaborators a session with these paths reads; the others are taken as loaded
Relevant(paths) ==
    {"log_verification_hash", "GEMINI_API_KEY"} \cup
    UNION { CASE Classify(paths[i]) = "images" -> {"analyze_image_with_rd_and_gemini"}
              [] Classify(paths[i]) = "video" -> {"run_video_forensics"}
              [] Classify(paths[i]) = "audio" -> {"analyze_audio_file", "doc_misinfo_agent"}
              [] Classify(paths[i]) = "documents" ->
                    {"doc_misinfo_agent", "fact_check_agent", "analyze_document_privately"}
              [] OTHER -> {}
            : i \in 1..Len(paths) }

\* line 133 reads the flag for an image file only, and of a loaded agent
NativeChoices(paths, m) ==
    IF /\ \E i \in 1..Len(paths) : Classify(paths[i]) = "images"
       /\ "analyze_image_with_rd_and_gemini" \notin m
    THEN BOOLEAN ELSE {FALSE}

SeqsUpTo(S, n) == UNION { [1..k -> S] : k \in 0..n }

\* a request that has not reached its handler
NoRequest == [phase |-> "idle", route |-> "", case_id |-> ""]

InitLocals ==
    /\ cases_collection = << >>
    /\ requests = [r \in 1..MaxRequests |-> NoRequest]
    /\ pc = "start"
    /\ ordered_types = << >>
    /\ buckets = [b \in BucketNames |-> << >>]
    /\ ti = 1
    /\ bi = 1
    /\ pl = NoPl
    /\ call = NoCall
    /\ item = NoItem
    /\ results = << >>
    /\ aggregate_text_parts = << >>
    /\ file_summaries = << >>
    /\ meta_output = NotObj("unset")
    /\ abandoned = {}
    /\ invoked = << >>

Init ==
    /\ file_paths \in SeqsUpTo(SessionPaths, MaxFiles)
    /\ user_instructions \in SessionInstructions
    /\ missing \in { m \in SUBSET Relevant(file_paths) : Cardinality(m) <= MaxMissing }
    /\ image_native \in NativeChoices(file_paths, missing)
    /\ InitLocals

\* a call of the scheduler alone: no files, every collaborator loaded
SchedInit ==
    /\ file_paths = << >>
    /\ user_instructions \in SchedInstructions
    /\ missing = {}
    /\ image_native = FALSE
    /\ InitLocals

inputs == <<file_paths, user_instructions, missing, image_native, cases_collection, requests>>

(***************************************************************************)
(* meta_process, lines 190-264.                                            *)
(***************************************************************************)
\* position of the next (t, f) of the nested loops at or after (t, b)
RECURSIVE LoopPos(_, _, _, _)
LoopPos(ot, bk, t, b) ==
    IF t > Len(ot) THEN <<t, 1>>
    ELSE IF b > Len(bk[ot[t]]) THEN LoopPos(ot, bk, t + 1, 1)
    ELSE <<t, b>>

\* lines 191-205
Start ==
    /\ pc = "start"
    /\ ordered_types' = _parse_priority_from_instructions(user_instructions)
    /\ buckets' = MakeBuckets(file_paths)
    /\ results' = << [k |-> "session_id", v |-> JStr("S")],
                     [k |-> "results", v |-> JList(<< >>)] >>
    /\ aggregate_text_parts' = << >>
    /\ file_summaries' = << >>
    /\ ti' = LoopPos(ordered_types', buckets', 1, 1)[1]
    /\ bi' = LoopPos(ordered_types', buckets', 1, 1)[2]
    /\ pc' = "loop"
    /\ UNCHANGED <<inputs, pl, call, item, meta_output, abandoned, invoked>>

\* the log, with the outcome of the awaited call (its last entry) filled in
Resolved(out) == [invoked EXCEPT ![Len(invoked)].out = out]

Logged(log, fn, idx, arg, out) ==
    Append(log, [fn |-> fn, idx |-> idx, arg |-> arg, out |-> out])

\* the pipeline either returned its item or awaits its next call
Proceed(k, log) ==
    /\ pl' = k.pl
    /\ call' = k.call
    /\ item' = k.item
    /\ pc' = IF k.done THEN "append" ELSE "await"
    /\ invoked' = IF k.done THEN log
                  ELSE Logged(log, k.call.fn, k.call.idx, k.call.arg, "pending")

\* line 209: the call of _run_pipeline_for_file for the next file
BeginPipeline ==
    /\ pc = "loop"
    /\ ti <= Len(ordered_types)
    /\ Proceed(BeginPipelineFor(buckets[ordered_types[ti]][bi], ordered_types[ti]), invoked)
    /\ UNCHANGED <<inputs, ordered_types, buckets, ti, bi, results, aggregate_text_parts,
                   file_summaries, meta_output, abandoned>>

\* the awaited call returns a value
CallReturns ==
    /\ pc = "await"
    /\ \E v \in AnswersTo(call) : Proceed(ResumePipeline(pl, call, [kind |-> "return", val |-> v]),
                                          Resolved("return"))
    /\ UNCHANGED <<inputs, ordered_types, buckets, ti, bi, results, aggregate_text_parts,
                   file_summaries, meta_output, abandoned>>

\* the awaited call raises
CallRaises ==
    /\ pc = "await"
    /\ Proceed(ResumePipeline(pl, call, [kind |-> "raise", val |-> Empty]), Resolved("raise"))
    /\ UNCHANGED <<inputs, ordered_types, buckets, ti, bi, results, aggregate_text_parts,
                   file_summaries, meta_output, abandoned>>

\* CallTimesOut with the timed-out call issued again instead of its outcome used
CallTimesOutRetries ==
    /\ pc = "await"
    /\ call.guarded
    /\ invoked' = Logged(Resolved("timeout"), call.fn, call.idx, call.arg, "pending")
    /\ abandoned' = IF call.offloaded THEN abandoned \cup {[fn |-> call.fn, idx |-> call.idx]}
                    ELSE abandoned
    /\ UNCHANGED <<inputs, pc, ordered_types, buckets, ti, bi, pl, call, item, results,
                   aggregate_text_parts, file_summaries, meta_output>>

\* asyncio.wait_for gives up on the awaited call; an executor job keeps running
CallTimesOut ==
    /\ pc = "await"
    /\ call.guarded
    /\ Proceed(ResumePipeline(pl, call, [kind |-> "timeout", val |-> Empty]), Resolved("timeout"))
    /\ abandoned' = IF call.offloaded THEN abandoned \cup {[fn |-> call.fn, idx |-> call.idx]}
                    ELSE abandoned
    /\ UNCHANGED <<inputs, ordered_types, buckets, ti, bi, results, aggregate_text_parts,
                   file_summaries, meta_output>>

\* a call awaited without a timeout never returns: the flow never resumes
CallHangs ==
    /\ pc = "await"
    /\ ~call.guarded
    /\ pc' = "hung"
    /\ invoked' = Resolved("hang")
    /\ UNCHANGED <<inputs, ordered_types, buckets, ti, bi, pl, call, item, results,
                   aggregate_text_parts, file_summaries, meta_output, abandoned>>

\* WorkerFinishesLate with the late value stored as the report of the job's file
WorkerFinishesLateDelivers ==
    /\ \E w \in abandoned :
        /\ abandoned' = abandoned \ {w}
        /\ results' =
            IF w.idx = 0 THEN results
            ELSE LET l == Get(results, "results").l IN
                 Set(results, "results",
                     JList([j \in 1..Len(l) |->
                                IF l[j].idx = w.idx
                                THEN [l[j] EXCEPT !.report = CHOOSE v \in Answers(w.fn) : ~IsError(v)]
                                ELSE l[j]]))
    /\ UNCHANGED <<inputs, pc, ordered_types, buckets, ti, bi, pl, call, item,
                   aggregate_text_parts, file_summaries, meta_output, invoked>>

\* an abandoned executor job runs to completion; nobody reads its result
WorkerFinishesLate ==
    /\ \E w \in abandoned : abandoned' = abandoned \ {w}
    /\ UNCHANGED <<inputs, pc, ordered_types, buckets, ti, bi, pl, call, item, results,
                   aggregate_text_parts, file_summaries, meta_output, invoked>>

\* AppendAggregate with the loops stepping on before the result is appended
AppendAggregateDeferred ==
    /\ pc = "append"
    /\ aggregate_text_parts' = aggregate_text_parts \o PartsFor(ordered_types[ti], item)
    /\ file_summaries' = file_summaries \o SummariesFor(ordered_types[ti], item)
    /\ ti' = LoopPos(ordered_types, buckets, ti, bi + 1)[1]
    /\ bi' = LoopPos(ordered_types, buckets, ti, bi + 1)[2]
    /\ item' = NoItem
    /\ pc' = "loop"
    /\ UNCHANGED <<inputs, ordered_types, buckets, pl, call, results, meta_output,
                   abandoned, invoked>>

\* lines 210-250, and the step of the loops to the next file
AppendAggregate ==
    /\ pc = "append"
    /\ results' = Set(results, "results", JList(Append(Get(results, "results").l, item)))
    /\ aggregate_text_parts' = aggregate_text_parts \o PartsFor(ordered_types[ti], item)
    /\ file_summaries' = file_summaries \o SummariesFor(ordered_types[ti], item)
    /\ ti' = LoopPos(ordered_types, buckets, ti, bi + 1)[1]
    /\ bi' = LoopPos(ordered_types, buckets, ti, bi + 1)[2]
    /\ item' = NoItem
    /\ pc' = "loop"
    /\ UNCHANGED <<inputs, ordered_types, buckets, pl, call, meta_output, abandoned, invoked>>

\* MergeMeta with the digest taken before the synthesizer's output is merged
MergeMetaHashFirst(mo) ==
    /\ meta_output' = mo
    /\ IF mo.kind # "object"
       THEN /\ pc' = "raised"
            /\ UNCHANGED results
       ELSE /\ results' = Update(Set(results, "proof_hash", _make_hash(results)), mo.pairs)
            /\ pc' = "anchor"

\* lines 185-188 and 256-258, run when _generate_meta_intelligence has its outcome:
\* dict.update raises on a value that is no mapping
MergeMeta(mo) ==
    /\ meta_output' = mo
    /\ IF mo.kind # "object"
       THEN /\ pc' = "raised"
            /\ UNCHANGED results
       ELSE /\ results' = Set(Update(results, mo.pairs), "proof_hash",
                              _make_hash(Update(results, mo.pairs)))
            /\ pc' = "anchor"

\* "\n".join(parts)
RECURSIVE Join(_)
Join(parts) ==
    IF parts = << >> THEN ""
    ELSE IF Len(parts) = 1 THEN parts[1].s
    ELSE parts[1].s \o "\n" \o Join(Tail(parts))

\* the cut of line 173
EvidenceCap == 25000

\* the EVIDENCE of the prompt: aggregate_text[:25000] of the joined fragments
Evidence(parts) == Prefix(Join(parts), EvidenceCap)

\* lines 252-254 and 167-184: the loops are over, the synthesizer is invoked
StartSynth ==
    /\ pc = "loop"
    /\ ti > Len(ordered_types)
    /\ IF ~Loaded("GEMINI_API_KEY")
       THEN /\ MergeMeta(KeyMissing)
            /\ UNCHANGED invoked
       ELSE /\ pc' = "synth_await"
            /\ invoked' = Logged(invoked, "generate_content", 0,
                                  Evidence(aggregate_text_parts), "awaited")
            /\ UNCHANGED <<meta_output, results>>
    /\ UNCHANGED <<inputs, ordered_types, buckets, ti, bi, pl, call, item,
                   aggregate_text_parts, file_summaries, abandoned>>

\* generate_content returns a response
SynthReturns ==
    /\ pc = "synth_await"
    /\ \E text \in SynthTexts : MergeMeta(MetaOf([kind |-> "return", val |-> text]))
    /\ UNCHANGED <<inputs, ordered_types, buckets, ti, bi, pl, call, item,
                   aggregate_text_parts, file_summaries, abandoned, invoked>>

\* SynthRaises with the request issued once more after a failure
SynthRaisesRetries ==
    /\ pc = "synth_await"
    /\ Cardinality({ n \in 1..Len(invoked) : invoked[n].fn = "generate_content" }) < 2
    /\ invoked' = Logged(invoked, "generate_content", 0, invoked[Len(invoked)].arg, "awaited")
    /\ UNCHANGED <<pc, meta_output, results>>
    /\ UNCHANGED <<inputs, ordered_types, buckets, ti, bi, pl, call, item,
                   aggregate_text_parts, file_summaries, abandoned>>

\* generate_content raises
SynthRaises ==
    /\ pc = "synth_await"
    /\ MergeMeta(MetaOf([kind |-> "raise", val |-> ""]))
    /\ UNCHANGED <<inputs, ordered_types, buckets, ti, bi, pl, call, item,
                   aggregate_text_parts, file_summaries, abandoned, invoked>>

\* the 15 s of asyncio.wait_for pass; the executor job keeps running
SynthTimesOut ==
    /\ pc = "synth_await"
    /\ MergeMeta(MetaOf([kind |-> "timeout", val |-> ""]))
    /\ abandoned' = abandoned \cup {[fn |-> "generate_content", idx |-> 0]}
    /\ UNCHANGED <<inputs, ordered_types, buckets, ti, bi, pl, call, item,
                   aggregate_text_parts, file_summaries, invoked>>

AnchorArg == "0x" \o (IF Get(results, "proof_hash").t = "str"
                      THEN Get(results, "proof_hash").s ELSE "<sha256 hex>")

\* lines 260-264, log_verification_hash returning
AnchorReturns ==
    /\ pc = "anchor"
    /\ Loaded("log_verification_hash")
    /\ results' = Set(results, "blockchain_tx", JStr("tx:" \o AnchorArg))
    /\ invoked' = Logged(invoked, "log_verification_hash", 0, AnchorArg, "return")
    /\ pc' = "done"
    /\ UNCHANGED <<inputs, ordered_types, buckets, ti, bi, pl, call, item,
                   aggregate_text_parts, file_summaries, meta_output, abandoned>>

\* AnchorRaises without the try/except of lines 261-262
AnchorRaisesEscapes ==
    /\ pc = "anchor"
    /\ Loaded("log_verification_hash")
    /\ invoked' = Logged(invoked, "log_verification_hash", 0, AnchorArg, "raise")
    /\ pc' = "raised"
    /\ UNCHANGED <<inputs, ordered_types, buckets, ti, bi, pl, call, item, results,
                   aggregate_text_parts, file_summaries, meta_output, abandoned>>

\* lines 260-264, log_verification_hash raising
AnchorRaises ==
    /\ pc = "anchor"
    /\ Loaded("log_verification_hash")
    /\ results' = Set(results, "blockchain_tx", [t |-> "error", s |-> ExcMsg, l |-> << >>])
    /\ invoked' = Logged(invoked, "log_verification_hash", 0, AnchorArg, "raise")
    /\ pc' = "done"
    /\ UNCHANGED <<inputs, ordered_types, buckets, ti, bi, pl, call, item,
                   aggregate_text_parts, file_summaries, meta_output, abandoned>>

\* lines 260-264, log_verification_hash not loaded
AnchorSkipped ==
    /\ pc = "anchor"
    /\ ~Loaded("log_verification_hash")
    /\ pc' = "done"
    /\ UNCHANGED <<inputs, ordered_types, buckets, ti, bi, pl, call, item, results,
                   aggregate_text_parts, file_summaries, meta_output, abandoned, invoked>>

Next ==
    \/ Start
    \/ BeginPipeline
    \/ CallReturns
    \/ CallRaises
    \/ CallTimesOut
    \/ CallHangs
    \/ WorkerFinishesLate
    \/ AppendAggregate
    \/ StartSynth
    \/ SynthReturns
    \/ SynthRaises
    \/ SynthTimesOut
    \/ AnchorReturns
    \/ AnchorRaises
    \/ AnchorSkipped

Spec == Init /\ [][Next]_vars

SchedNext == Start

SchedSpec == SchedInit /\ [][SchedNext]_vars

(***************************************************************************)
(* Properties.                                                             *)
(***************************************************************************)
\* the per-file entries of the report
ResultsList == IF Has(results, "results") THEN Get(results, "results").l ELSE << >>

Processable(i) == Classify(file_paths[i]) # "unsupported"

Last(s) == s[Len(s)]

\* the item _run_pipeline_for_file returns from its except clause
PipelineRaised(it) == it.keys = {"file", "type", "error"}

\* C1: the returned report's results list has exactly one entry per submitted
\* file, whatever the extensions of the files and whatever the collaborators do.
C1_OneEntryPerFile == pc = "done" => Len(ResultsList) = Len(file_paths)

\* C2: every submitted file with an extension on no allow-list has an entry of
\* type "unsupported" in results, and adds no evidence fragment and no summary.
C2_UnsupportedTagged ==
    pc = "done" =>
        \A i \in 1..Len(file_paths) :
            ~Processable(i) =>
                /\ \E j \in 1..Len(ResultsList) :
                        ResultsList[j].idx = i /\ ResultsList[j].type = "unsupported"
                /\ \A j \in 1..Len(aggregate_text_parts) : aggregate_text_parts[j].idx # i
                /\ \A j \in 1..Len(file_summaries) : file_summaries[j].idx # i

\* C3: when the pipeline of a file raises, meta_process does not raise, every
\* processable file gets its result, and the returned report holds a non-empty
\* final_summary.
C3_FailureContained ==
    (\E j \in 1..Len(ResultsList) : PipelineRaised(ResultsList[j])) =>
        /\ pc # "raised"
        /\ pc = "done" =>
            /\ \A i \in 1..Len(file_paths) :
                    Processable(i) => \E j \in 1..Len(ResultsList) : ResultsList[j].idx = i
            /\ Has(results, "final_summary")
            /\ Get(results, "final_summary").t = "str"
            /\ Get(results, "final_summary").s # ""

MediaFns == {"analyze_image_with_rd_and_gemini", "run_video_forensics"}

FailSafeFor(fn) == IF fn = "analyze_image_with_rd_and_gemini" THEN FailSafeImage ELSE FailSafeVideo

\* C4: when the analysis call of an image or video file times out, the file's
\* report is the fixed fail-safe payload of the modality (a "(Fail-Safe)" verdict,
\* a numeric score, no "error" key) and meta_process does not fail to return.
C4_TimeoutFailSafe ==
    \A n \in 1..Len(invoked) :
        (invoked[n].fn \in MediaFns /\ invoked[n].out = "timeout") =>
            /\ pc \notin {"hung", "raised"}
            /\ \A j \in 1..Len(ResultsList) :
                    ResultsList[j].idx = invoked[n].idx =>
                        /\ ResultsList[j].report = FailSafeFor(invoked[n].fn)
                        /\ Contains(ResultsList[j].report.verdict, "(Fail-Safe)")
                        /\ "authenticity_score" \in ResultsList[j].report.keys
                        /\ "error" \notin ResultsList[j].report.keys

\* the dicts with the entries of d in another insertion order
Reorderings(d) == { [i \in 1..Len(d) |-> d[f[i]]] : f \in Permutations(1..Len(d)) }

\* C5: the proof_hash of the returned report is the digest of the report without
\* its proof_hash and blockchain_tx fields, in whatever order its keys were inserted.
C5_HashOfContent ==
    pc = "done" =>
        \A d \in Reorderings(Without(results, {"proof_hash", "blockchain_tx"})) :
            Get(results, "proof_hash") = _make_hash(d)

\* C6: an anchoring call that raises ends meta_process with the report returned:
\* the step leaves every field but blockchain_tx as it was (as a successful
\* anchoring does), and blockchain_tx then holds an error.
C6_AnchorFailureContained ==
    [][ (pc = "anchor" /\ Len(invoked') > Len(invoked)) =>
            /\ pc' = "done"
            /\ Without(results', {"blockchain_tx"}) = Without(results, {"blockchain_tx"})
            /\ Has(results', "blockchain_tx")
            /\ Last(invoked').out = "raise" => Get(results', "blockchain_tx").t = "error"
      ]_vars

C6_Witness ==
    /\ pc = "done"
    /\ Len(invoked) > 0
    /\ Last(invoked).fn = "log_verification_hash"
    /\ Last(invoked).out = "raise"
    /\ Get(results, "blockchain_tx").t = "error"
    /\ Get(results, "proof_hash").t = "sha256"
    /\ Len(ResultsList) = MaxFiles

WordsOf(c) ==
    CASE c = "audio" -> AudioWords
      [] c = "images" -> ImageWords
      [] c = "video" -> VideoWords
      [] c = "documents" -> DocWords

Matched(c) == \E w \in WordsOf(c) : Contains(Lower(user_instructions), w)

ScanOrder == <<"audio", "images", "video", "documents">>

RankIn(s, x) == CHOOSE i \in 1..Len(s) : s[i] = x

\* C7: the scheduler's order is a permutation of the four classes in which the
\* matched classes come first, in the order audio, images, video, documents, and
\* the unmatched ones after them, in the order documents, video, images, audio.
C7_PriorityOrder ==
    pc # "start" =>
        /\ Len(ordered_types) = 4
        /\ { ordered_types[i] : i \in 1..4 } = {"audio", "images", "video", "documents"}
        /\ \A i, j \in 1..4 :
            i < j =>
                LET a == ordered_types[i]
                    b == ordered_types[j]
                IN /\ ~(~Matched(a) /\ Matched(b))
                   /\ (Matched(a) /\ Matched(b)) => RankIn(ScanOrder, a) < RankIn(ScanOrder, b)
                   /\ (~Matched(a) /\ ~Matched(b)) => RankIn(Fallback, a) < RankIn(Fallback, b)
        /\ user_instructions = ExampleInstructions =>
                ordered_types = <<"audio", "images", "documents", "video">>
        /\ user_instructions = "" =>
                ordered_types = <<"documents", "video", "images", "audio">>

C7_Witness ==
    /\ pc = "loop"
    /\ user_instructions = "photos" \o "Audio"
    /\ ordered_types = <<"audio", "images", "documents", "video">>

\* C8: when the synthesizer is invoked, the summaries list has one entry per
\* submitted file of a processable class.
C8_SummaryPerProcessable ==
    pc \in {"synth_await", "anchor", "raised"} =>
        Len(file_summaries) = Cardinality({ i \in 1..Len(file_paths) : Processable(i) })

\* the outcome of the file is a failure
FailedItem(it) == "error" \in it.keys \/ "error" \in ReportOf(it).keys

FailureTagged(line) == Contains(line, "Failed") \/ Contains(line, "Error")

\* C9: every processable file whose outcome is a failure has a summary line, and
\* that line is failure-tagged.
C9_FailuresTagged ==
    pc = "synth_await" =>
        \A j \in 1..Len(ResultsList) :
            FailedItem(ResultsList[j]) =>
                /\ \E n \in 1..Len(file_summaries) : file_summaries[n].idx = ResultsList[j].idx
                /\ \A n \in 1..Len(file_summaries) :
                        file_summaries[n].idx = ResultsList[j].idx =>
                            FailureTagged(file_summaries[n].s)

\* file a is processed before file b: its class is earlier in the scheduler's
\* order, or the classes are the same and a was submitted first
ClassOf(i) == CHOOSE b \in BucketNames : InSeq(i, buckets[b])

Before(a, b) ==
    LET ca == ClassOf(a)
        cb == ClassOf(b)
    IN \/ RankIn(ordered_types, ca) < RankIn(ordered_types, cb)
       \/ ca = cb /\ a < b

InOrder(s) == \A i, j \in 1..Len(s) : i < j => Before(s[i].idx, s[j].idx)

\* C10: results, the summaries and the evidence fragments are each in
\* scheduler-then-submission order of their files.
C10_SchedulerOrder ==
    /\ InOrder(ResultsList)
    /\ InOrder(file_summaries)
    /\ InOrder(aggregate_text_parts)

C10_Witness ==
    /\ pc = "done"
    /\ Len(ResultsList) = 2
    /\ ResultsList[1].idx = 2
    /\ ResultsList[2].idx = 1
    /\ Len(file_summaries) = 2
    /\ Len(aggregate_text_parts) = 2
    /\ file_summaries[1].idx = 2
    /\ aggregate_text_parts[1].idx = 2

\* the meta fields the synthesizer is to give the report
MetaFieldsPresent ==
    /\ Has(results, "final_summary") /\ Get(results, "final_summary").t = "str"
    /\ Has(results, "entities") /\ Get(results, "entities").t = "list"
    /\ Has(results, "relations") /\ Get(results, "relations").t = "list"

\* C11: whatever the synthesizer's call does (timeout, exception, a response that
\* is no JSON, or JSON that is no object with the three fields), meta_process does
\* not raise and the report gets a final_summary string and entities and relations
\* collections.
C11_SynthNeverRaises ==
    /\ pc # "raised"
    /\ pc \in {"anchor", "done"} => MetaFieldsPresent

\* C12: every collaborator call a pipeline awaits is under the executor's timeout,
\* so no call that never returns keeps meta_process from returning.
C12_EveryCallGuarded ==
    /\ pc = "await" => call.guarded
    /\ pc # "hung"

\* the payload p is what the claim allows for a guarded call c that ended as kind
Outcome(p, c, kind) ==
    CASE kind = "return" -> p \in Answers(c.fn)
      [] kind = "timeout" ->
            IF c.file_type = "image" THEN p = FailSafeImage
            ELSE IF c.file_type = "video" THEN p = FailSafeVideo
            ELSE IsError(p)
      [] kind = "raise" -> IsError(p) /\ Contains(p.error, ExcMsg)
      [] OTHER -> FALSE

\* the same for a payload the pipeline has turned into text with str()
StrOutcome(s, c, kind) ==
    CASE kind = "return" -> \E v \in Answers(c.fn) : s = StrOf(v)
      [] kind = "timeout" -> Contains(s, "'error'")
      [] kind = "raise" -> Contains(s, "'error'") /\ Contains(s, ExcMsg)
      [] OTHER -> FALSE

\* C13: a _run_safe invocation ends in exactly one of three ways and the pipeline
\* goes on with its payload: the collaborator's value when it returned in time, the
\* fail-safe payload (image, video) or an error payload (others) when it timed
\* out, an error payload with the exception's message when it raised.
C13_RunSafeOutcome ==
    [][ (/\ pc = "await"
         /\ call.guarded
         /\ invoked[Len(invoked)].out = "pending"
         /\ invoked'[Len(invoked)].out # "pending") =>
            LET kind == invoked'[Len(invoked)].out IN
            /\ kind \in {"return", "timeout", "raise"}
            /\ pc' \in {"append", "await"}
            /\ CASE pl.step \in {"image", "video"} ->
                        /\ pc' = "append"
                        /\ "report" \in item'.keys
                        /\ Outcome(item'.report, call, kind)
                 [] pl.step = "audio" ->
                        IF pc' = "await" THEN Outcome(pl'.res, call, kind)
                        ELSE IF PipelineRaised(item') THEN kind = "return"
                        ELSE Outcome(item'.report, call, kind)
                 [] pl.step = "neysa" ->
                        IF pc' = "await" THEN StrOutcome(pl'.neysa_res, call, kind)
                        ELSE IF "privateAudit" \in item'.report.keys
                        THEN StrOutcome(item'.report.privateAudit, call, kind)
                        ELSE kind \in {"timeout", "raise"}
                 [] pl.step = "fact" ->
                        /\ pc' = "append"
                        /\ StrOutcome(item'.report.factCheckAgent, call, kind)
                 [] OTHER -> FALSE
      ]_vars

C13_Witness ==
    /\ pc = "done"
    /\ \E i, j \in 1..Len(ResultsList) :
        /\ ResultsList[i].report = ErrorPayload("Audio Agent timed out. Service unavailable.")
        /\ ResultsList[j].report = ErrorPayload("Video Agent failed: boom")

LoopsOver == pc = "synth_await" \/ (pc = "loop" /\ ti > Len(ordered_types))

\* the analysis call of a modality, whose outcome is the file's report
PrimaryFns == MediaFns \cup {"analyze_audio_file"}

\* calls _run_pipeline_for_file makes outside _run_safe
UnguardedFns == {"read_files_from_paths", "run_gemini_analysis"}

\* the result entry it carries the outcome of the failed or timed-out call e
Carries(it, e) ==
    CASE e.fn \in PrimaryFns /\ e.out = "raise" ->
            "report" \in it.keys /\ IsError(it.report) /\ Contains(it.report.error, ExcMsg)
      [] e.fn \in MediaFns /\ e.out = "timeout" ->
            "report" \in it.keys /\ it.report = FailSafeFor(e.fn)
      [] e.fn = "analyze_audio_file" /\ e.out = "timeout" ->
            "report" \in it.keys /\ IsError(it.report)
      [] e.fn \in UnguardedFns /\ e.out = "raise" ->
            PipelineRaised(it) /\ it.error = ExcMsg
      [] e.fn = "fact_check_agent" /\ e.out \in {"raise", "timeout"} ->
            "report" \in it.keys /\ Contains(it.report.factCheckAgent, "'error'")
      [] OTHER -> TRUE

C15_EmptySessionFatal ==
    file_paths = << >> =>
        /\ pc \notin {"synth_await", "anchor", "done"}
        /\ ~Has(results, "proof_hash")
        /\ \A n \in 1..Len(invoked) :
                invoked[n].fn \notin {"generate_content", "log_verification_hash"}

\* C16: when a guarded call running in an executor worker times out, the flow
\* goes on with the timeout outcome and the worker is left running; when the
\* worker finishes later, in whatever phase the flow is, nothing of the flow's
\* state changes: not the file's result, not any other part of the report.
C16_LateResultDiscarded ==
    [][ /\ (/\ pc = "await"
            /\ call.guarded /\ call.offloaded
            /\ invoked[Len(invoked)].out = "pending"
            /\ invoked'[Len(invoked)].out = "timeout") =>
                /\ [fn |-> call.fn, idx |-> call.idx] \in abandoned'
                /\ pc' \in {"append", "await"}
        /\ (abandoned \subseteq abandoned' /\ abandoned' # abandoned) =>
                pc' \in {"append", "await", "anchor"}
        /\ (abandoned' \subseteq abandoned /\ abandoned' # abandoned) =>
                UNCHANGED <<pc, pl, call, item, results, aggregate_text_parts,
                            file_summaries, meta_output, invoked, ti, bi>>
      ]_vars

\* the audio worker that timed out has finished after the report was sealed
C16_Witness ==
    /\ pc = "done"
    /\ abandoned = {}
    /\ \E n \in 1..Len(invoked) : \E j \in 1..Len(ResultsList) :
        /\ invoked[n].fn = "analyze_audio_file"
        /\ invoked[n].out = "timeout"
        /\ ResultsList[j].idx = invoked[n].idx
        /\ IsError(ResultsList[j].report)

\* the file whose pipeline is in progress or whose item waits to be appended
Current == IF pc = "await" THEN pl.idx ELSE IF pc = "append" THEN item.idx ELSE 0

HasResult(i) == \E j \in 1..Len(ResultsList) : ResultsList[j].idx = i

OnePipeline ==
    /\ Cardinality({ n \in 1..Len(invoked) : invoked[n].out = "pending" }) <= 1
    /\ pc \in {"await", "append"} =>
        /\ Current # 0
        /\ ~HasResult(Current)
        /\ \A i \in 1..Len(file_paths) :
                (Processable(i) /\ i # Current) => (HasResult(i) <=> Before(i, Current))
    /\ pc \notin {"await", "append", "hung"} => pl = NoPl /\ call = NoCall

\* C17: one file pipeline is in progress at a time: it starts when every file
\* before it in the processing order has its result appended and no later file
\* has one, and results, the summaries and the evidence parts are written by the
\* flow's own steps: the append for the current file (and, for results, the merge
\* of line 256).
C17_OnePipelineAtATime ==
    /\ []OnePipeline
    /\ [][ /\ (file_summaries' # file_summaries \/ aggregate_text_parts' # aggregate_text_parts)
                => pc = "append"
           /\ ResultsList' # ResultsList => pc \in {"append", "synth_await"}
           /\ (pl'.idx # pl.idx /\ pl'.idx # 0) => pc = "loop" /\ pl = NoPl /\ item = NoItem
         ]_vars

\* the second file's pipeline awaits its call, the first file's result is in
C17_Witness ==
    /\ pc = "await"
    /\ Len(ResultsList) = 1
    /\ ResultsList[1].idx # pl.idx
    /\ invoked[Len(invoked)].out = "pending"

\* what _generate_meta_intelligence can return: a normal or a degraded output
SynthOutputs == {KeyMissing, Degraded} \cup { JsonLoads(text) : text \in SynthTexts }

SealedFields == {"session_id", "results", "final_summary", "entities", "relations"}

\* the fields of the report are the ones the digest was computed from
SealedAsHashed ==
    (Has(results, "proof_hash") /\ Get(results, "proof_hash").t = "sha256") =>
        \A k \in SealedFields :
            Has(results, k) =>
                /\ Has(Get(results, "proof_hash").l, k)
                /\ Get(Get(results, "proof_hash").l, k) = Get(results, k)

\* C18: the fingerprint is computed when the loops are over, every processable
\* file has its result and the synthesizer has returned its normal or degraded
\* output; anchoring is attempted with the fingerprint stored; and from then on
\* the report changes in blockchain_tx alone, so that results and the meta fields
\* of the returned report are the fingerprinted ones.
C18_SealAfterEverything ==
    /\ [](Has(results, "proof_hash") =>
            /\ pc \in {"anchor", "done"}
            /\ ti > Len(ordered_types)
            /\ meta_output \in SynthOutputs
            /\ \A n \in 1..Len(invoked) : invoked[n].out # "pending")
    /\ []SealedAsHashed
    /\ [][ /\ (~Has(results, "proof_hash") /\ Has(results', "proof_hash")) =>
                \A i \in 1..Len(file_paths) : Processable(i) => HasResult(i)
           /\ (Len(invoked') > Len(invoked) /\ Last(invoked').fn = "log_verification_hash") =>
                Has(results, "proof_hash")
           /\ Has(results, "proof_hash") =>
                Without(results', {"blockchain_tx"}) = Without(results, {"blockchain_tx"})
         ]_vars

\* a sealed and anchored report over a degraded synthesis
C18_Witness ==
    /\ pc = "done"
    /\ meta_output = Degraded
    /\ Len(ResultsList) = 1
    /\ Get(results, "proof_hash").t = "sha256"
    /\ Has(results, "blockchain_tx")
    /\ Get(results, "blockchain_tx").t = "str"

\* the collaborators the document pipeline calls on the extracted text
TextFns == {"run_gemini_analysis", "analyze_document_privately", "fact_check_agent"}

\* C19: for a document, misinformation scoring, the private audit and the
\* fact-check are invoked only on a non-empty extracted text (the text is the
\* argument of the scoring call, the first of the three).
C19_OnlyOnNonEmptyText ==
    \A n \in 1..Len(invoked) :
        (invoked[n].fn \in TextFns /\ Classify(file_paths[invoked[n].idx]) = "documents") =>
            \E m \in 1..n :
                /\ invoked[m].fn = "run_gemini_analysis"
                /\ invoked[m].idx = invoked[n].idx
                /\ invoked[m].arg # ""

\* C20: the fact-check of a document is invoked after its misinformation scoring
\* has returned, with the scoring result's finalReport.findings as the claim when
\* that is present and non-empty and the first 500 characters of the extracted
\* text otherwise.
C20_FactCheckClaim ==
    /\ \A n \in 1..Len(invoked) :
            invoked[n].fn = "fact_check_agent" =>
                \E m \in 1..(n - 1) :
                    /\ invoked[m].fn = "run_gemini_analysis"
                    /\ invoked[m].idx = invoked[n].idx
                    /\ invoked[m].out = "return"
    /\ (pc = "await" /\ call.fn = "fact_check_agent") =>
            /\ invoked[Len(invoked)].arg = call.arg
            /\ IF "finalReport" \in pl.gemini_res.keys /\ pl.gemini_res.findings # ""
               THEN call.arg = pl.gemini_res.findings
               ELSE /\ Len(call.arg) <= 500
                    /\ call.arg = SubSeq(pl.text, 1, Len(call.arg))
                    /\ Len(call.arg) = 500 \/ call.arg = pl.text

\* the scoring gave no findings and the text is longer than 500 characters
C20_Witness ==
    /\ pc = "await"
    /\ call.fn = "fact_check_agent"
    /\ "finalReport" \notin pl.gemini_res.keys
    /\ Len(pl.text) > 500
    /\ Len(call.arg) = 500

\* the transcription payload carries a non-empty transcript text
HasTranscriptText(res) ==
    /\ res.isdict
    /\ "transcript" \in res.keys
    /\ res.transcript_isdict
    /\ res.transcript # ""

\* a scoring call for an audio file follows a transcription that returned, and
\* has a non-empty text as its argument
ScoredAfterTranscript ==
    \A n \in 1..Len(invoked) :
        (invoked[n].fn = "run_gemini_analysis"
            /\ Classify(file_paths[invoked[n].idx]) = "audio") =>
            /\ invoked[n].arg # ""
            /\ n > 1
            /\ invoked[n - 1].fn = "analyze_audio_file"
            /\ invoked[n - 1].idx = invoked[n].idx
            /\ invoked[n - 1].out = "return"

\* C21: in the audio pipeline misinformation scoring is invoked exactly when the
\* transcription returned a payload with a non-empty transcript text and the
\* scorer is loaded, with that text; never after a transcription timeout or
\* error; and the audio report of a scored transcript has misinformationAnalysis.
C21_AudioScoring ==
    /\ []ScoredAfterTranscript
    /\ [][ /\ (pc = "await" /\ call.fn = "analyze_audio_file" /\ pc' = "append") =>
                \/ PipelineRaised(item')
                \/ ~(HasTranscriptText(item'.report) /\ Loaded("doc_misinfo_agent"))
           /\ (pc = "await" /\ call.fn = "analyze_audio_file" /\ pc' = "await"
                    /\ invoked' # invoked) =>
                /\ call'.fn = "run_gemini_analysis"
                /\ HasTranscriptText(pl'.res)
                /\ call'.arg = pl'.res.transcript
                /\ Loaded("doc_misinfo_agent")
           /\ (pc = "await" /\ pl.step = "audio_gemini" /\ pc' = "append"
                    /\ ~PipelineRaised(item')) =>
                /\ "misinformationAnalysis" \in item'.report.keys
                /\ item'.report.transcript = pl.res.transcript
         ]_vars

\* a transcript was scored and the score is in the returned audio report
C21_Witness ==
    /\ pc = "done"
    /\ \E j \in 1..Len(ResultsList) :
        /\ ResultsList[j].type = "audio"
        /\ "report" \in ResultsList[j].keys
        /\ ResultsList[j].report.transcript = "we landed"
        /\ "misinformationAnalysis" \in ResultsList[j].report.keys
        /\ ResultsList[j].report.num = 40

\* the collaborator whose absence short-circuits the pipeline of a class
ModalityCollab(class) ==
    CASE class = "documents" -> "doc_misinfo_agent"
      [] class = "images" -> "analyze_image_with_rd_and_gemini"
      [] class = "audio" -> "analyze_audio_file"
      [] class = "video" -> "run_video_forensics"

Unavailable(i) == ClassOf(i) # "unsupported" /\ ModalityCollab(ClassOf(i)) \in missing

\* C22: for a file whose modality collaborator is not loaded no collaborator is
\* invoked, its result is tagged with an error, and the loops go on: when they
\* are over every processable file has its result.
C22_UnavailableShortCircuits ==
    pc # "start" =>
        \A i \in 1..Len(file_paths) :
            Unavailable(i) =>
                /\ \A n \in 1..Len(invoked) : invoked[n].idx # i
                /\ \A j \in 1..Len(ResultsList) :
                        ResultsList[j].idx = i =>
                            /\ "error" \in ResultsList[j].keys
                            /\ Contains(ResultsList[j].error, "missing")
                            /\ "report" \notin ResultsList[j].keys
                /\ LoopsOver =>
                        \A k \in 1..Len(file_paths) :
                            ClassOf(k) # "unsupported" => HasResult(k)
                /\ pc \in {"await", "append"} => Current # i \/ pc = "append"

\* the first file's agent is missing, the second file was analysed after it
C22_Witness ==
    /\ pc = "done"
    /\ Len(ResultsList) = 2
    /\ ResultsList[1].keys = {"file", "error"}
    /\ "report" \in ResultsList[2].keys
    /\ \E n \in 1..Len(invoked) : invoked[n].idx = ResultsList[2].idx /\ invoked[n].out = "return"

(***************************************************************************)
(* A call of the classifier alone: any paths, every collaborator loaded.   *)
(***************************************************************************)
ClassPaths ==
    { "up/A.PNG", "x.JPEG", "f.gif", "b.mp4", "c.Mp3", "d.txt", "a.b.txt", "e.tar.gz",
      "dir.v2/report", "README", "trailing.", "g.exe", ".pdf" }

ClassInit ==
    /\ file_paths \in SeqsUpTo(ClassPaths, MaxFiles)
    /\ user_instructions = ""
    /\ missing = {}
    /\ image_native = FALSE
    /\ InitLocals

ClassNext == Start

ClassSpec == ClassInit /\ [][ClassNext]_vars

\* the suffixes of p that hold no dot and follow one
DotFreeTails(p) ==
    { SubSeq(p, k + 1, Len(p)) : k \in { n \in 1..Len(p) :
            /\ CharAt(p, n) = "."
            /\ \A m \in (n + 1)..Len(p) : CharAt(p, m) # "." } }

\* the bucket that the lower-cased text after the last dot stands for
BucketFor(p) ==
    IF DotFreeTails(p) = {} THEN "unsupported"
    ELSE LET low == Lower(CHOOSE tail \in DotFreeTails(p) : TRUE) IN
         CASE low \in {"png", "jpg", "jpeg", "gif"} -> "images"
           [] low \in {"mp4", "mov", "avi", "mkv"} -> "video"
           [] low \in {"mp3", "wav", "m4a"} -> "audio"
           [] low \in {"txt", "pdf", "docx"} -> "documents"
           [] OTHER -> "unsupported"

RECURSIVE SumLen(_, _)
SumLen(bk, names) ==
    IF names = {} THEN 0
    ELSE LET b == CHOOSE x \in names : TRUE IN Len(bk[b]) + SumLen(bk, names \ {b})

\* C23: after classification every submitted file is in exactly one of the
\* five buckets, once, the bucket being the one of the lower-cased text after
\* its last dot (unsupported without a dot or off the allow-lists), and the
\* bucket sizes sum to len(file_paths).
C23_ClassificationPartitions ==
    pc # "start" =>
        /\ DOMAIN buckets = {"images", "video", "audio", "documents", "unsupported"}
        /\ \A i \in 1..Len(file_paths) :
                /\ Cardinality({ b \in DOMAIN buckets : InSeq(i, buckets[b]) }) = 1
                /\ InSeq(i, buckets[BucketFor(file_paths[i])])
                /\ \A b \in DOMAIN buckets :
                        Cardinality({ n \in 1..Len(buckets[b]) : buckets[b][n] = i }) <= 1
        /\ \A b \in DOMAIN buckets : \A n \in 1..Len(buckets[b]) :
                buckets[b][n] \in 1..Len(file_paths)
        /\ SumLen(buckets, DOMAIN buckets) = Len(file_paths)

\* an upper-case extension is classified by its lower-case form and a path
\* without a dot is unsupported
C23_Witness ==
    /\ pc = "loop"
    /\ file_paths = <<"up/A.PNG", "README">>
    /\ buckets["images"] = <<1>>
    /\ buckets["unsupported"] = <<2>>

\* C24: every entry of results carries the file name and a type naming the
\* file's modality class, the same label for a class on every path of the
\* pipeline (success, timeout, collaborator unavailable, pipeline exception).
C24_ResultsTyped ==
    /\ \A j \in 1..Len(ResultsList) :
            /\ {"file", "type"} \subseteq ResultsList[j].keys
            /\ ResultsList[j].file = Fname(ResultsList[j].idx)
    /\ \A j, k \in 1..Len(ResultsList) :
            ClassOf(ResultsList[j].idx) = ClassOf(ResultsList[k].idx) =>
                ResultsList[j].type = ResultsList[k].type

\* the entries of the log that are requests to the reasoning model
GenCalls == { n \in 1..Len(invoked) : invoked[n].fn = "generate_content" }

SynthEntered == pc = "synth_await" \/ meta_output # NotObj("unset")

\* C25 as claimed: a meta_process call that returns its report has issued
\* exactly one reasoning call, never none.
C25_ExactlyOneSynthCall ==
    pc \in {"anchor", "done"} => Cardinality(GenCalls) = 1

\* the reasoning call is issued at most once, after every file is aggregated,
\* and is skipped exactly when no key is configured
OneSynthCall ==
    /\ Cardinality(GenCalls) <= 1
    /\ \A n \in GenCalls :
            /\ \A m \in 1..Len(invoked) :
                    (m > n => invoked[m].fn = "log_verification_hash")
            /\ Loaded("GEMINI_API_KEY")
    /\ SynthEntered =>
            Cardinality(GenCalls) = (IF Loaded("GEMINI_API_KEY") THEN 1 ELSE 0)
    /\ (SynthEntered /\ ~Loaded("GEMINI_API_KEY")) => meta_output = KeyMissing

\* C25, amended: the reasoning call is issued at most once in a meta_process
\* call, only after every file is aggregated, and is never repeated; its wait
\* is ended by its own timeout with the degraded report; once the files are
\* aggregated it is skipped exactly when no GEMINI_API_KEY is configured, and
\* then the placeholder "AI key missing." stands for its answer.
C25_SynthCallAtMostOnce ==
    /\ []OneSynthCall
    /\ [][ /\ (GenCalls' # GenCalls) =>
                    /\ pc = "loop" /\ pc' = "synth_await" /\ LoopsOver
                    /\ results' = results
                    /\ \A i \in 1..Len(file_paths) :
                            ClassOf(i) # "unsupported" => HasResult(i)
           /\ ([fn |-> "generate_content", idx |-> 0] \in abandoned' \ abandoned) =>
                    /\ meta_output' = Degraded
                    /\ pc' = "anchor"
                    /\ invoked' = invoked ]_vars

\* two files were aggregated, the one request given up after its 15 s
C25_Witness ==
    /\ pc = "done"
    /\ Cardinality(GenCalls) = 1
    /\ Len(ResultsList) = 2
    /\ [fn |-> "generate_content", idx |-> 0] \in abandoned
    /\ meta_output = Degraded

(***************************************************************************)
(* Sessions whose first document is longer than the evidence cut.          *)
(***************************************************************************)
EvidencePaths == { <<BigPath>>, <<BigPath, "b.mp4">>, <<"c.mp3", BigPath>> }

EvidenceInit ==
    /\ file_paths \in EvidencePaths
    /\ user_instructions = ""
    /\ missing \in { m \in SUBSET Relevant(file_paths) : Cardinality(m) <= MaxMissing }
    /\ image_native \in NativeChoices(file_paths, missing)
    /\ InitLocals

EvidenceSpec == EvidenceInit /\ [][Next]_vars

\* where fragment n starts in the joined text, counted from 0
RECURSIVE Offset(_, _)
Offset(parts, n) == IF n = 1 THEN 0 ELSE Offset(parts, n - 1) + Len(parts[n - 1].s) + 1

\* fragment n is whole in the evidence e
FragmentIn(parts, n, e) ==
    /\ Offset(parts, n) + Len(parts[n].s) <= Len(e)
    /\ SubSeq(e, Offset(parts, n) + 1, Offset(parts, n) + Len(parts[n].s)) = parts[n].s

\* C26: the fragments are capped one by one, none is longer than the cap of
\* the evidence, and every fragment, also that of a file after a large one,
\* is whole in the evidence given to the reasoning model.
C26_FragmentsCapped ==
    /\ \A n \in 1..Len(aggregate_text_parts) : Len(aggregate_text_parts[n].s) <= EvidenceCap
    /\ \A g \in GenCalls :
            /\ Len(invoked[g].arg) <= EvidenceCap
            /\ \A n \in 1..Len(aggregate_text_parts) :
                    FragmentIn(aggregate_text_parts, n, invoked[g].arg)

\* C27: the step that merges the synthesizer's output into the report leaves
\* session_id and the results list as they were, whatever keys the output has.
C27_MergeKeepsSession ==
    [][ (meta_output' # meta_output /\ pc' = "anchor") =>
            /\ Get(results', "session_id") = Get(results, "session_id")
            /\ Get(results', "session_id") = JStr("S")
            /\ Get(results', "results") = Get(results, "results") ]_vars

(***************************************************************************)
(* Sessions with an image whose report cannot be canonicalized.            *)
(***************************************************************************)
SealPaths == { <<RawPath>>, <<RawPath, "d.txt">>, <<"b.mp4", RawPath>> }

SealInit ==
    /\ file_paths \in SealPaths
    /\ user_instructions = ""
    /\ missing \in { m \in SUBSET Relevant(file_paths) : Cardinality(m) <= MaxMissing }
    /\ image_native \in NativeChoices(file_paths, missing)
    /\ InitLocals

SealSpec == SealInit /\ [][Next]_vars

\* C28: the proof_hash of a report that is returned is a SHA-256 digest of its
\* canonical form, never a placeholder, and no placeholder is given to the
\* anchoring call.
C28_ProofHashIsDigest ==
    /\ pc \in {"anchor", "done"} =>
            /\ Has(results, "proof_hash")
            /\ Get(results, "proof_hash").t = "sha256"
    /\ \A n \in 1..Len(invoked) :
            invoked[n].fn = "log_verification_hash" => invoked[n].arg # "0xhash_error"

(***************************************************************************)
(* The case store, database.py lines 77-105, and the two request handlers  *)
(* of app.py that take a case ID from it.  The store is connected.         *)
(***************************************************************************)
Routes == {"verify", "verify_with_instructions"}

\* get_next_case_id, lines 84-85
CaseIdFor(count) == "CASE_" \o ToString(count)

SessionUnchanged ==
    UNCHANGED <<file_paths, user_instructions, missing, image_native, pc, ordered_types,
                buckets, ti, bi, pl, call, item, results, aggregate_text_parts,
                file_summaries, meta_output, abandoned, invoked>>

\* app.py lines 212-214 and 249-251: the handler takes its ID from the count of records
GetNextCaseId(r) ==
    /\ requests[r].phase = "idle"
    /\ \E route \in Routes :
            requests' = [requests EXCEPT ![r] =
                [phase |-> "running", route |-> route,
                 case_id |-> CaseIdFor(Len(cases_collection))]]
    /\ UNCHANGED cases_collection
    /\ SessionUnchanged

\* database.py lines 86-88: count_documents raises
GetNextCaseIdError(r) ==
    /\ requests[r].phase = "idle"
    /\ \E route \in Routes :
            requests' = [requests EXCEPT ![r] =
                [phase |-> "running", route |-> route, case_id |-> "CASE_ERROR"]]
    /\ UNCHANGED cases_collection
    /\ SessionUnchanged

\* app.py lines 228-232 and 272-273 with database.py line 101: the analysis
\* returned and the record is inserted
CreateCaseRecord(r) ==
    /\ requests[r].phase = "running"
    /\ cases_collection' = Append(cases_collection, requests[r].case_id)
    /\ requests' = [requests EXCEPT ![r].phase = "answered"]
    /\ SessionUnchanged

\* database.py lines 103-104: insert_one raises, the error is logged only
CreateCaseRecordFails(r) ==
    /\ requests[r].phase = "running"
    /\ requests' = [requests EXCEPT ![r].phase = "answered"]
    /\ UNCHANGED cases_collection
    /\ SessionUnchanged

\* app.py lines 226, 240-242 and 276-277: the analysis raised or the type is
\* unsupported, the handler answers without a record
RequestFails(r) ==
    /\ requests[r].phase = "running"
    /\ requests' = [requests EXCEPT ![r].phase = "failed"]
    /\ UNCHANGED cases_collection
    /\ SessionUnchanged

CaseInit ==
    /\ file_paths = << >>
    /\ user_instructions = ""
    /\ missing = {}
    /\ image_native = FALSE
    /\ InitLocals

CaseNext ==
    \E r \in 1..MaxRequests :
        \/ GetNextCaseId(r)
        \/ GetNextCaseIdError(r)
        \/ CreateCaseRecord(r)
        \/ CreateCaseRecordFails(r)
        \/ RequestFails(r)

CaseSpec == CaseInit /\ [][CaseNext]_vars

\* the request took its ID from a count of the connected store
Counted(r) == requests[r].phase # "idle" /\ requests[r].case_id # "CASE_ERROR"

\* C29: two sessions that obtained an ID from the connected store have
\* different IDs, and no two case records share a case ID.
C29_CaseIdsUnique ==
    /\ \A r, s \in 1..MaxRequests :
            (r # s /\ Counted(r) /\ Counted(s)) => requests[r].case_id # requests[s].case_id
    /\ \A i, j \in 1..Len(cases_collection) :
            (i # j /\ cases_collection[i] # "CASE_ERROR") =>
                cases_collection[i] # cases_collection[j]

====
